---- MODULE Spec2Model ----
(***************************************************************************)
(* NYC Property Scout: the analysis stream and the chat of a property view. *)
(*                                                                         *)
(*   services/api.js        streamWatsonAnalysis   SSE read loop           *)
(*   pages/PropertyDetail   triggerWatsonAnalysis  draft and thread id     *)
(*   components/ScoreCard   parseReport            report normalisation    *)
(*   components/WatsonChat  sendMessage            chat turns              *)
(*                                                                         *)
(* Encoding.  A text (a JavaScript string) is a sequence of tokens; a     *)
(* token is a narration word, a serialised JSON document (compact,        *)
(* indent 0, or pretty-printed, indent 2), a code fence or a score label. *)
(* A JSON number is a natural number, null is Null and an absent key is   *)
(* Undefined.  On the wire a byte is a one-character string and the JSON  *)
(* text of an event is abbreviated to three bytes, "{", a code and "}";   *)
(* Events maps the code to the event object.                               *)
(***************************************************************************)
EXTENDS Integers, Sequences, FiniteSets, TLC

\* ------------------------------------------------------------------ bounds
MaxLines == 2        \* lines of a generated stream
MaxSessions == 2     \* analysis requests of one property view
MaxChunks == 2       \* markdown chunks appended to a draft
MaxTurns == 2        \* chat requests of one WatsonChat
MaxFetches == 3      \* getProperties calls of one PropertyProvider

\* ------------------------------------------------------------ JSON values
Undefined == -2
Null == -1

NoScores ==
  [overall_transparency_grade |-> Undefined, overall_grade |-> Undefined,
   overall |-> Undefined, quality_score |-> Undefined, quality |-> Undefined,
   financial_score |-> Undefined, financial |-> Undefined]

NoAudit == [score |-> Undefined, financial_score |-> Undefined]

\* A report document: property is "" when the key is absent; scores and
\* financial_audit are objects when hasScores / hasAudit, absent otherwise.
EmptyDoc ==
  [property |-> "", hasScores |-> FALSE, scores |-> NoScores,
   hasAudit |-> FALSE, financial_audit |-> NoAudit]

PropertyOnlyDoc == [EmptyDoc EXCEPT !.property = "1 Main St"]

FullScoresDoc ==
  [EmptyDoc EXCEPT !.hasScores = TRUE,
     !.scores = [NoScores EXCEPT !.overall_transparency_grade = 80,
                                 !.quality_score = 90,
                                 !.financial_score = 70]]

GradeDoc ==
  [EmptyDoc EXCEPT !.hasScores = TRUE,
     !.scores = [NoScores EXCEPT !.overall_grade = 72],
     !.hasAudit = TRUE,
     !.financial_audit = [NoAudit EXCEPT !.score = 55]]

OverallDoc ==
  [EmptyDoc EXCEPT !.hasScores = TRUE,
     !.scores = [NoScores EXCEPT !.overall = 64]]

NullGradeDoc ==
  [EmptyDoc EXCEPT !.hasScores = TRUE,
     !.scores = [NoScores EXCEPT !.overall_grade = Null, !.quality = 40]]

QualityOnlyDoc ==
  [EmptyDoc EXCEPT !.property = "1 Main St", !.hasScores = TRUE,
     !.scores = [NoScores EXCEPT !.quality_score = 90]]

\* ------------------------------------------------------------------ texts
Tok(kind, w, doc, n) == [kind |-> kind, w |-> w, doc |-> doc, n |-> n]

Word(w) == <<Tok("word", w, EmptyDoc, 0)>>

\* a content that is not a report text: a missing content (undefined), JSON
\* null and a JSON number.  JSON.parse, includes and + all coerce their
\* operand to a string, so the token stands for String(v); it is not a JSON
\* document, and JSON.stringify(JSON.parse(v)) gives the same string back
Value(v) == <<Tok("value", v, EmptyDoc, 0)>>

\* JSON text as the upstream service writes it (compact)
Compact(doc) == <<Tok("json", "", doc, 0)>>

\* JSON.stringify(value, null, 2)
Stringify(doc) == <<Tok("json", "", doc, 2)>>

\* JSON.parse: a text is a JSON document iff it is exactly one serialised
\* document; whitespace (the indent) is not significant
IsJSON(text) == Len(text) = 1 /\ text[1].kind = "json"

ParseJSON(text) == text[1].doc

\* String.prototype.indexOf scan used by String.prototype.includes
RECURSIVE IncludesFrom(_, _, _)
IncludesFrom(hay, needle, i) ==
  IF i + Len(needle) > Len(hay) THEN FALSE
  ELSE IF SubSeq(hay, i + 1, i + Len(needle)) = needle THEN TRUE
  ELSE IncludesFrom(hay, needle, i + 1)

Includes(hay, needle) == IncludesFrom(hay, needle, 0)

\* a ?? b
Coalesce(a, b) == IF a \notin {Undefined, Null} THEN a ELSE b

\* -------------------------------------------- PropertyDetail: onMessage
\* PropertyDetail.jsx 60-62: the "complete report" test of onMessage
IsCompleteReport(parsed) ==
  /\ parsed.hasScores
  /\ \/ parsed.scores.overall_transparency_grade # Undefined
     \/ parsed.scores.overall_grade # Undefined

\* PropertyDetail.jsx 68: parsed.property || parsed.scores
IsPartialData(parsed) == parsed.property # "" \/ parsed.hasScores

\* the update without the duplicate check
AppendAlways(prev, message) == prev \o message

\* PropertyDetail.jsx 77-82: the functional update of the draft
AppendIncremental(prev, message) ==
  IF Includes(prev, message) THEN prev ELSE prev \o message

\* PropertyDetail.jsx 55-83: the draft after onMessage(message)
OnMessage(prev, message) ==
  IF IsJSON(message) /\ IsCompleteReport(ParseJSON(message)) THEN message
  ELSE IF IsJSON(message) /\ IsPartialData(ParseJSON(message)) THEN prev
  ELSE AppendIncremental(prev, message)

\* ------------------------------------------------- ScoreCard: parseReport
NoReport ==
  [isNull |-> TRUE, scores |-> NoScores, hasFullText |-> FALSE,
   full_text |-> <<>>]

\* response.match(/```json\n([\s\S]*?)\n```/): the text between the first
\* opening fence that has a closing fence after it and that closing fence
FenceOpens(response) ==
  {i \in 1..Len(response) : response[i].kind = "fenceOpen"}

FenceCloses(response, from) ==
  {j \in (from + 1)..Len(response) : response[j].kind = "fenceClose"}

Min(S) == CHOOSE m \in S : \A n \in S : m <= n

FenceStarts(response) ==
  {i \in FenceOpens(response) : FenceCloses(response, i) # {}}

HasFence(response) == FenceStarts(response) # {}

FencedText(response) ==
  LET i == Min(FenceStarts(response))
      j == Min(FenceCloses(response, i))
  IN SubSeq(response, i + 1, j - 1)

\* the normalisation without the alias keys
NormalizeCanonicalOnly(parsed) ==
  [NoScores EXCEPT !.overall = parsed.scores.overall,
                   !.quality = parsed.scores.quality,
                   !.financial = parsed.scores.financial]

\* the normalisation with overall_grade ahead of overall_transparency_grade
NormalizeGradeFirst(parsed) ==
  [NoScores EXCEPT
     !.overall = Coalesce(parsed.scores.overall_grade,
                   Coalesce(parsed.scores.overall_transparency_grade,
                            parsed.scores.overall)),
     !.quality = Coalesce(parsed.scores.quality_score, parsed.scores.quality),
     !.financial = Coalesce(parsed.scores.financial_score,
                     Coalesce(parsed.scores.financial,
                       Coalesce(parsed.financial_audit.score,
                                parsed.financial_audit.financial_score)))]

\* part_003 82-93: the normalised scores of a bare-JSON report
NormalizeScores(parsed) ==
  [NoScores EXCEPT
     !.overall = Coalesce(parsed.scores.overall_transparency_grade,
                   Coalesce(parsed.scores.overall_grade,
                            parsed.scores.overall)),
     !.quality = Coalesce(parsed.scores.quality_score, parsed.scores.quality),
     !.financial = Coalesce(parsed.scores.financial_score,
                     Coalesce(parsed.scores.financial,
                       Coalesce(parsed.financial_audit.score,
                                parsed.financial_audit.financial_score)))]

\* Markdown text: a label token is the label with its colon, as spelled; a
\* blank, a star, a number and the units "%" and "/100" are tokens of their
\* own.
Label(spelling) == <<Tok("label", spelling, EmptyDoc, 0)>>

Blank == <<Tok("space", " ", EmptyDoc, 0)>>

Star == <<Tok("star", "*", EmptyDoc, 0)>>

Number(n) == <<Tok("number", "", EmptyDoc, n)>>

Percent == <<Tok("unit", "%", EmptyDoc, 0)>>

Per100 == <<Tok("unit", "/100", EmptyDoc, 0)>>

\* the i flag: the spellings a label pattern accepts
Spellings(name) ==
  CASE name = "Overall Grade:" -> {"Overall Grade:", "overall grade:"}
    [] name = "Quality Score:" -> {"Quality Score:", "QUALITY SCORE:"}
    [] name = "Financial Score:" -> {"Financial Score:", "financial score:"}

\* the index after the longest run of at most max tokens of a kind from i
RECURSIVE SkipRun(_, _, _, _)
SkipRun(response, i, kind, max) ==
  IF max > 0 /\ i <= Len(response) /\ response[i].kind = kind
  THEN SkipRun(response, i + 1, kind, max - 1)
  ELSE i

\* the pattern with a single optional star
MatchLabelOneStar(response, i, name, unit) ==
  LET k == SkipRun(response, SkipRun(response, i + 1, "space", Len(response)),
                   "star", 1)
  IN IF /\ response[i].kind = "label"
        /\ response[i].w \in Spellings(name)
        /\ k + 1 <= Len(response)
        /\ response[k].kind = "number"
        /\ response[k + 1] = unit[1]
     THEN k ELSE 0

\* /<name>\s*\*?\*?(\d+)<unit>/i tried at token i: the index of the number,
\* 0 if the pattern does not match there
MatchLabelAt(response, i, name, unit) ==
  LET k == SkipRun(response, SkipRun(response, i + 1, "space", Len(response)),
                   "star", 2)
  IN IF /\ response[i].kind = "label"
        /\ response[i].w \in Spellings(name)
        /\ k + 1 <= Len(response)
        /\ response[k].kind = "number"
        /\ response[k + 1] = unit[1]
     THEN k ELSE 0

\* part_003 126-141: response.match(pattern) and parseFloat / parseInt of its
\* group: the number of the leftmost match, Undefined without a match
LabelValue(response, name, unit) ==
  LET I == {i \in 1..Len(response) :
              MatchLabelAt(response, i, name, unit) # 0}
  IN IF I = {} THEN Undefined
     ELSE response[MatchLabelAt(response, Min(I), name, unit)].n

\* part_003 116-195: markdown fallback (the score labels)
MarkdownReport(response) ==
  [isNull |-> FALSE,
   scores |-> [NoScores EXCEPT
                 !.overall = LabelValue(response, "Overall Grade:", Percent),
                 !.quality = LabelValue(response, "Quality Score:", Per100),
                 !.financial =
                   LabelValue(response, "Financial Score:", Per100)],
   hasFullText |-> TRUE, full_text |-> response]

\* part_003 72-110: the report of a response that is one JSON document
JSONReport(parsed, response) ==
  LET normalized == NormalizeScores(parsed) IN
  IF /\ parsed.hasScores
     /\ \/ normalized.overall # Undefined
        \/ normalized.quality # Undefined
        \/ normalized.financial # Undefined
  THEN [isNull |-> FALSE, scores |-> normalized, hasFullText |-> FALSE,
        full_text |-> <<>>]
  ELSE IF parsed.property # "" /\ ~parsed.hasScores THEN NoReport
  ELSE [isNull |-> FALSE,
        scores |-> IF parsed.hasScores THEN parsed.scores ELSE NoScores,
        hasFullText |-> TRUE, full_text |-> response]

\* part_003 57-200
parseReport(response) ==
  IF response = <<>> THEN NoReport
  ELSE IF HasFence(response) THEN
    IF IsJSON(FencedText(response))
    THEN [isNull |-> FALSE,
          scores |-> IF ParseJSON(FencedText(response)).hasScores
                     THEN ParseJSON(FencedText(response)).scores
                     ELSE NoScores,
          hasFullText |-> FALSE, full_text |-> <<>>]
    ELSE [isNull |-> FALSE, scores |-> NoScores, hasFullText |-> TRUE,
          full_text |-> response]
  ELSE IF IsJSON(response) THEN JSONReport(ParseJSON(response), response)
  ELSE MarkdownReport(response)

\* part_003 239-276: ScoreCard renders the report body (not the loading,
\* error or waiting placeholder)
ShowsReport(rep, isLoading, err) ==
  ~isLoading /\ err = "null" /\ ~rep.isNull

\* part_003 296: the overall-grade card
ShowsOverallCard(rep, isLoading, err) ==
  /\ ShowsReport(rep, isLoading, err)
  /\ rep.scores.overall \notin {Undefined, Null}

\* part_003 477: report.full_text && !report.scores?.overall
ShowsFullText(rep, isLoading, err) ==
  /\ ShowsReport(rep, isLoading, err)
  /\ rep.hasFullText
  /\ rep.full_text # <<>>
  /\ rep.scores.overall \in {Undefined, Null, 0}

\* ------------------------------------------------------------ wire format
Prefix == <<"d", "a", "t", "a", ":", " ">>

NoThread == "null"

Event(type, status, content, thread_id, error) ==
  [type |-> type, status |-> status, content |-> content,
   thread_id |-> thread_id, error |-> error]

\* the event objects of the wire format, by wire code
Events ==
  [c \in {"c", "s", "d", "e", "t", "p", "f", "g", "o", "n", "q", "x", "a",
           "b", "u", "z", "k"} |->
     CASE c = "c" -> Event("connected", "", <<>>, "", "")
       [] c = "t" -> Event("thread_id", "", <<>>, "xyz789", "")
       [] c = "s" -> Event("status", "Analyzing", <<>>, "", "")
       [] c = "d" -> Event("done", "", <<>>, "abc123", "")
       [] c = "e" -> Event("error", "", <<>>, "", "upstream failed")
       [] c = "p" -> Event("message", "", Compact(PropertyOnlyDoc), "", "")
       [] c = "f" -> Event("message", "", Compact(FullScoresDoc), "", "")
       [] c = "g" -> Event("message", "", Compact(GradeDoc), "", "")
       [] c = "o" -> Event("message", "", Compact(OverallDoc), "", "")
       [] c = "n" -> Event("message", "", Compact(NullGradeDoc), "", "")
       [] c = "q" -> Event("message", "", Compact(QualityOnlyDoc), "", "")
       [] c = "x" -> Event("message", "", Compact(EmptyDoc), "", "")
       [] c = "a" -> Event("message", "", Word("a"), "", "")
       [] c = "b" -> Event("message", "", Word("b"), "", "")
       [] c = "u" -> Event("message", "", Value("undefined"), "", "")
       [] c = "z" -> Event("message", "", Value("null"), "", "")
       [] c = "k" -> Event("message", "", Value("5"), "", "")]

\* JSON.parse(data) succeeds iff data is the JSON text of an event
IsEventJSON(data) ==
  /\ Len(data) = 3
  /\ data[1] = "{"
  /\ data[3] = "}"
  /\ data[2] \in DOMAIN Events

ParseEvent(data) == Events[data[2]]

DataLine(c) == Prefix \o <<"{", c, "}">>

\* the lines a server may write: the events, an event followed by a blank,
\* a payload that is not JSON ("data: {not json"), an empty payload, a
\* comment line and the sentinel "data: [DONE]" (abbreviated to "[D]")
LineNames == DOMAIN Events \cup {"s_", "bad", "empty", "comment", "DONE"}

\* the lines that exercise the framing, and those that exercise the messages
FramingLines ==
  {"c", "s", "s_", "d", "e", "bad", "empty", "comment", "DONE"}

MessageLines == {"p", "f", "g", "o", "n", "q", "x", "a", "b"}

\* message events without a report text: no content, null, a number
MalformedLines == {"u", "z", "k"}

LineBytes(name) ==
  CASE name = "s_" -> DataLine("s") \o <<" ">>
    [] name = "bad" -> Prefix \o <<"{", "!">>
    [] name = "empty" -> Prefix \o <<" ">>
    [] name = "comment" -> <<":", "k">>
    [] name = "DONE" -> Prefix \o <<"[", "D", "]">>
    [] OTHER -> DataLine(name)

\* the bytes of a stream: each line followed by "\n", the last one only when
\* the stream is terminated
RECURSIVE WireOf(_, _)
WireOf(script, terminated) ==
  IF script = <<>> THEN <<>>
  ELSE IF Len(script) = 1
       THEN LineBytes(script[1]) \o (IF terminated THEN <<"\n">> ELSE <<>>)
       ELSE LineBytes(script[1]) \o <<"\n">> \o WireOf(Tail(script), terminated)

\* --------------------------------------------- api.js: the SSE read loop
\* buffer.split('\n')
RECURSIVE SplitLines(_)
SplitLines(s) ==
  LET I == {i \in 1..Len(s) : s[i] = "\n"} IN
  IF I = {} THEN <<s>>
  ELSE <<SubSeq(s, 1, Min(I) - 1)>> \o SplitLines(SubSeq(s, Min(I) + 1, Len(s)))

StartsWith(line, prefix) ==
  Len(line) >= Len(prefix) /\ SubSeq(line, 1, Len(prefix)) = prefix

IsSpace(b) == b \in {" ", "\r", "\t"}

RECURSIVE TrimStart(_)
TrimStart(s) ==
  IF s # <<>> /\ IsSpace(Head(s)) THEN TrimStart(Tail(s)) ELSE s

RECURSIVE TrimEnd(_)
TrimEnd(s) ==
  IF s # <<>> /\ IsSpace(s[Len(s)]) THEN TrimEnd(SubSeq(s, 1, Len(s) - 1))
  ELSE s

Trim(s) == TrimEnd(TrimStart(s))

Call(cb, text, str) == [cb |-> cb, text |-> text, str |-> str]

\* The loop's context while the lines of one read are handled: the view
\* state the callbacks write, the session's call log and whether the loop is
\* still running.  who is the session, mounted whether setState has effect.
Logged(ctx, call) ==
  [ctx EXCEPT !.calls = Append(@, call), !.writers = Append(@, ctx.who)]

\* PropertyDetail.jsx 55-83
onMessage(ctx, message) ==
  LET c == Logged(ctx, Call("onMessage", message, "")) IN
  IF ~ctx.mounted THEN c
  ELSE [c EXCEPT !.lastPrev = ctx.watsonResponse,
                 !.watsonResponse = OnMessage(ctx.watsonResponse, message)]

\* PropertyDetail.jsx 84-86
onStatus(ctx, status) ==
  LET c == Logged(ctx, Call("onStatus", <<>>, status)) IN
  IF ~ctx.mounted THEN c ELSE [c EXCEPT !.watsonStatus = status]

\* onError leaving the loading flag as it is
onErrorKeepsLoading(ctx, error) ==
  LET c == Logged(ctx, Call("onError", <<>>, error)) IN
  IF ~ctx.mounted THEN c ELSE [c EXCEPT !.watsonError = error]

\* PropertyDetail.jsx 87-90
onError(ctx, error) ==
  LET c == Logged(ctx, Call("onError", <<>>, error)) IN
  IF ~ctx.mounted THEN c
  ELSE [c EXCEPT !.watsonError = error, !.watsonLoading = FALSE]

\* PropertyDetail.jsx 91-96
onComplete(ctx, newThreadId) ==
  LET c == Logged(ctx, Call("onComplete", <<>>, newThreadId)) IN
  IF ~ctx.mounted THEN c
  ELSE [c EXCEPT !.watsonLoading = FALSE,
                 !.watsonStatus = "Analysis complete",
                 !.threadId = newThreadId]

\* api.js 125-146: dispatch on parsed.type
Dispatch(ctx, parsed) ==
  CASE parsed.type = "status" -> onStatus(ctx, parsed.status)
    [] parsed.type = "message" ->
         onMessage(ctx, IF IsJSON(parsed.content)
                        THEN Stringify(ParseJSON(parsed.content))
                        ELSE parsed.content)
    [] parsed.type = "done" -> onComplete(ctx, parsed.thread_id)
    [] parsed.type = "error" -> onError(ctx, parsed.error)
    [] OTHER -> ctx

\* the for loop with the JSON.parse failure escaping to the outer catch
HandleLineThrowing(ctx, line) ==
  IF ~ctx.running THEN ctx
  ELSE IF ~StartsWith(line, Prefix) THEN ctx
  ELSE LET data == Trim(SubSeq(line, Len(Prefix) + 1, Len(line))) IN
       IF data = <<>> THEN ctx
       ELSE IF IsEventJSON(data) THEN Dispatch(ctx, ParseEvent(data))
       ELSE [onError(ctx, "Unexpected token") EXCEPT !.running = FALSE]

\* api.js 116-150: one line of the for loop
HandleLine(ctx, line) ==
  IF ~ctx.running THEN ctx
  ELSE IF ~StartsWith(line, Prefix) THEN ctx
  ELSE LET data == Trim(SubSeq(line, Len(Prefix) + 1, Len(line))) IN
       IF data = <<>> THEN ctx
       ELSE IF IsEventJSON(data) THEN Dispatch(ctx, ParseEvent(data))
       ELSE ctx

RECURSIVE HandleLines(_, _)
HandleLines(ctx, lines) ==
  IF lines = <<>> THEN ctx
  ELSE HandleLines(HandleLine(ctx, Head(lines)), Tail(lines))

\* the read loop without the carry-over of the incomplete line
KeptNothing(lines) == <<>>

\* api.js 113: lines.pop() leaves the complete lines in lines and keeps the
\* last, incomplete one as the buffer
KeptBuffer(lines) == lines[Len(lines)]

\* api.js 113-151: the complete lines are handled, the last is kept
ProcessLines(ctx, lines) ==
  [HandleLines(ctx, SubSeq(lines, 1, Len(lines) - 1))
     EXCEPT !.buffer = KeptBuffer(lines)]

\* api.js 111-151: the body of the while loop for one value read
ProcessChunk(ctx, chunk) == ProcessLines(ctx, SplitLines(ctx.buffer \o chunk))


\* WatsonChat.jsx 50-52: the state of a WatsonChat just mounted
NoChat == [messages |-> <<>>, input |-> <<>>, isLoading |-> FALSE]

\* ------------------------------------------------------------------ state
\* ---- PropertyContext: the listing, its filters and pages ----

\* part_000 18-25 and 66-73: the filters of a new provider and of resetFilters
defaultFilters ==
  [skip |-> 0, limit |-> 20, minPrice |-> Null, maxPrice |-> Null,
   beds |-> Null, borough |-> Null]

\* { ...a, ...b }
Spread(a, b) ==
  [k \in DOMAIN a \cup DOMAIN b |-> IF k \in DOMAIN b THEN b[k] ELSE a[k]]

\* part_002 52-59: what applyFilters passes to updateFilters (borough 1
\* stands for a borough name)
FilterForms ==
  {[minPrice |-> Null, maxPrice |-> Null, beds |-> 2, borough |-> Null],
   [minPrice |-> Null, maxPrice |-> Null, beds |-> Null, borough |-> 1]}

\* the page the listing service answers a query with: n listings, or a body
\* whose properties field is not an array (n = Null)
Listings(queryParams, n) ==
  IF n = Null THEN <<>>
  ELSE [i \in 1..n |->
          [zpid |-> queryParams.skip + i, beds |-> queryParams.beds,
           borough |-> queryParams.borough]]

PageSizes(queryParams) == {Null, 1, queryParams.limit}

\* err.message of a rejected getProperties
ListingFailures == {"Network Error", ""}

\* part_000 15-25 and 78-80: a new provider whose effect has called
\* fetchProperties()
NewListing ==
  [properties |-> <<>>, loading |-> TRUE, error |-> "null",
   filters |-> defaultFilters,
   requests |-> <<[queryParams |-> defaultFilters, by |-> "mount",
                   state |-> "pending"]>>]

\* part_000 92: currentPage
currentPage(l) == (l.filters.skip \div l.filters.limit) + 1

\* part_000 93-94
hasNextPage(l) == Len(l.properties) = l.filters.limit
hasPrevPage(l) == l.filters.skip > 0

VARIABLES
  id,              \* useParams().id of the mounted PropertyDetail
  mounted,         \* the PropertyDetail instance is mounted
  property,        \* useState: address of the loaded property, "null" if none
  loading,         \* useState
  error,           \* useState: "null" or a message
  watsonResponse,  \* useState: the draft, a text
  watsonLoading,   \* useState
  watsonError,     \* useState: "null" or a message
  watsonStatus,    \* useState
  threadId,        \* useState: NoThread or a thread id
  fetches,         \* the getPropertyById calls of fetchProperty, in call order
  streams,         \* the streamWatsonAnalysis calls, in call order
  writers,         \* history: the session of every callback invoked so far
  lastPrev,        \* history: the draft before the latest onMessage
  report,          \* ScoreCard: parseReport(watsonResponse) of the last render
  chat,            \* WatsonChat useState: messages, input, isLoading
  turns,           \* the sendMessage calls that sent a request, in call order
  listing          \* PropertyProvider useState: properties, loading, error,
                   \* filters; and its getProperties calls, in call order

vars ==
  <<id, mounted, property, loading, error, watsonResponse, watsonLoading,
    watsonError, watsonStatus, threadId, fetches, streams, writers, lastPrev,
    report, chat, turns, listing>>

Ids == {1, 2}

\* a property-only message, the complete report, then done
ScenarioScript == <<"p", "f", "d">>

\* every stream of at most MaxLines framing lines, message lines or
\* malformed messages, and the scenario
Scripts ==
  UNION {[1..k -> FramingLines] \cup [1..k -> MessageLines]
           \cup [1..k -> MalformedLines] : k \in 0..MaxLines}
    \cup {ScenarioScript}

AllStreams == [script : Scripts, terminated : BOOLEAN]

\* the streams served while the route changes
NavStreams ==
  {[script |-> <<"f", "d">>, terminated |-> TRUE],
   [script |-> <<"a">>, terminated |-> TRUE],
   [script |-> <<"b", "d">>, terminated |-> FALSE]}

\* PropertyDetail.jsx 11-19 and the first run of the effect (21-23, 25-28)
Init ==
  /\ id = 1
  /\ mounted = TRUE
  /\ property = "null"
  /\ loading = TRUE
  /\ error = "null"
  /\ watsonResponse = <<>>
  /\ watsonLoading = FALSE
  /\ watsonError = "null"
  /\ watsonStatus = ""
  /\ threadId = NoThread
  /\ fetches = <<[id |-> id, threadId |-> NoThread, pending |-> TRUE]>>
  /\ streams = <<>>
  /\ writers = <<>>
  /\ lastPrev = <<>>
  /\ report = parseReport(<<>>)
  /\ chat = NoChat
  /\ turns = <<>>
  /\ listing = NewListing

\* api.js 75-104: the session streamWatsonAnalysis creates
NewStream(stream, sentThreadId) ==
  [script |-> stream.script,
   wire |-> WireOf(stream.script, stream.terminated),
   thread_id |-> sentThreadId,
   pos |-> 0, buffer |-> <<>>, state |-> "open", aborted |-> FALSE,
   failure |-> "", calls |-> <<>>]

\* PropertyDetail.jsx 28-35, 40 and 44-101: getPropertyById resolves with a
\* property that has an address; triggerWatsonAnalysis runs
FetchResolve(k, Served) ==
  /\ k \in 1..Len(fetches)
  /\ fetches[k].pending
  /\ fetches' = [fetches EXCEPT ![k].pending = FALSE]
  /\ \E stream \in Served :
       streams' = Append(streams, NewStream(stream, fetches[k].threadId))
  /\ IF mounted
     THEN /\ property' = "1 Main St"
          /\ error' = "null"
          /\ loading' = FALSE
          /\ watsonLoading' = TRUE
          /\ watsonError' = "null"
          /\ watsonResponse' = <<>>
          /\ watsonStatus' = "Connecting to Watson..."
          /\ report' = parseReport(<<>>)
     ELSE UNCHANGED <<property, error, loading, watsonLoading, watsonError,
                      watsonResponse, watsonStatus, report>>
  /\ UNCHANGED <<id, mounted, threadId, writers, lastPrev>>
  /\ UNCHANGED <<chat, turns, listing>>

\* PropertyDetail.jsx 36-41: getPropertyById rejects
FetchReject(k) ==
  /\ k \in 1..Len(fetches)
  /\ fetches[k].pending
  /\ fetches' = [fetches EXCEPT ![k].pending = FALSE]
  /\ IF mounted
     THEN error' = "Failed to load property" /\ loading' = FALSE
     ELSE UNCHANGED <<error, loading>>
  /\ UNCHANGED <<id, mounted, property, watsonResponse, watsonLoading,
                 watsonError, watsonStatus, threadId, streams, writers,
                 lastPrev, report>>
  /\ UNCHANGED <<chat, turns, listing>>

\* PropertyDetail.jsx 21-28: the route id changes, the effect runs
\* fetchProperty again (the effect returns no cleanup)
ChangeRoute(newId) ==
  /\ mounted
  /\ newId # id
  /\ Len(fetches) < MaxSessions
  /\ id' = newId
  /\ loading' = TRUE
  /\ fetches' = Append(fetches, [id |-> newId, threadId |-> threadId,
                                 pending |-> TRUE])
  /\ UNCHANGED <<mounted, property, error, watsonResponse, watsonLoading,
                 watsonError, watsonStatus, threadId, streams, writers,
                 lastPrev, report>>
  /\ UNCHANGED <<chat, turns, listing>>

\* the user leaves the property view: no effect cleanup exists (21-23)
Unmount ==
  /\ mounted
  /\ mounted' = FALSE
  /\ UNCHANGED <<id, property, loading, error, watsonResponse, watsonLoading,
                 watsonError, watsonStatus, threadId, fetches, streams,
                 writers, lastPrev, report>>
  /\ UNCHANGED <<chat, turns, listing>>

Ctx(s) ==
  [watsonResponse |-> watsonResponse, watsonLoading |-> watsonLoading,
   watsonError |-> watsonError, watsonStatus |-> watsonStatus,
   threadId |-> threadId, lastPrev |-> lastPrev, writers |-> writers,
   mounted |-> mounted, who |-> s, running |-> TRUE,
   calls |-> streams[s].calls, buffer |-> streams[s].buffer]

\* api.js 107-151: reader.read() returns the next n bytes of the response
Read(s, n) ==
  /\ s \in 1..Len(streams)
  /\ streams[s].state = "open"
  /\ n \in 1..(Len(streams[s].wire) - streams[s].pos)
  /\ \E out \in {ProcessChunk(Ctx(s), SubSeq(streams[s].wire,
                                 streams[s].pos + 1, streams[s].pos + n))} :
        /\ streams' = [streams EXCEPT
                        ![s].pos = @ + n,
                        ![s].buffer = out.buffer,
                        ![s].calls = out.calls,
                        ![s].state = IF out.running THEN "open" ELSE "failed"]
        /\ watsonResponse' = out.watsonResponse
        /\ watsonLoading' = out.watsonLoading
        /\ watsonError' = out.watsonError
        /\ watsonStatus' = out.watsonStatus
        /\ threadId' = out.threadId
        /\ writers' = out.writers
        /\ lastPrev' = out.lastPrev
        /\ report' = IF mounted THEN parseReport(out.watsonResponse)
                      ELSE report
  /\ UNCHANGED <<id, mounted, property, loading, error, fetches>>
  /\ UNCHANGED <<chat, turns, listing>>

\* api.js 107-109: reader.read() reports done, the loop breaks
ReadDone(s) ==
  /\ s \in 1..Len(streams)
  /\ streams[s].state = "open"
  /\ streams[s].pos = Len(streams[s].wire)
  /\ streams' = [streams EXCEPT ![s].state = "ended"]
  /\ UNCHANGED <<id, mounted, property, loading, error, watsonResponse,
                 watsonLoading, watsonError, watsonStatus, threadId, fetches,
                 writers, lastPrev, report>>
  /\ UNCHANGED <<chat, turns, listing>>

\* error.message of the exceptions the try block of streamRequest can raise:
\* fetch rejects, the status is not OK (api.js 98-100), reader.read() rejects
FetchFailures == {"Failed to fetch", "HTTP error! status: 500"}

ReadFailure == "network error"

\* api.js 89-100, 107 and 153-160: the request or a read fails; the outer
\* catch calls onError(error.message) and streamRequest returns
TransportError(s, message) ==
  /\ s \in 1..Len(streams)
  /\ streams[s].state = "open"
  /\ message \in FetchFailures => streams[s].pos = 0
  /\ \E out \in {onError(Ctx(s), message)} :
        /\ streams' = [streams EXCEPT ![s].state = "failed",
                                       ![s].failure = message,
                                       ![s].calls = out.calls]
        /\ watsonLoading' = out.watsonLoading
        /\ watsonError' = out.watsonError
        /\ writers' = out.writers
  /\ UNCHANGED <<id, mounted, property, loading, error, watsonResponse,
                 watsonStatus, threadId, fetches, lastPrev, report>>
  /\ UNCHANGED <<chat, turns, listing>>

Fail ==
  \E s \in 1..Len(streams) :
    \E message \in FetchFailures \cup {ReadFailure} : TransportError(s, message)

ReadSome ==
  \E s \in 1..Len(streams) : \E n \in 1..Len(streams[s].wire) : Read(s, n)

ReadEnd == \E s \in 1..Len(streams) : ReadDone(s)

Resolve == \E k \in 1..Len(fetches) : FetchResolve(k, NavStreams)

Reject == \E k \in 1..Len(fetches) : FetchReject(k)

Navigate == \E newId \in Ids : ChangeRoute(newId)

\* ------------------------------------------- WatsonChat: sendMessage
DoneBytes == <<"[", "D", "]">>

\* String.prototype.trim on a text
RECURSIVE TrimText(_)
TrimText(text) ==
  IF text # <<>> /\ Head(text).kind = "space" THEN TrimText(Tail(text))
  ELSE IF text # <<>> /\ text[Len(text)].kind = "space"
       THEN TrimText(SubSeq(text, 1, Len(text) - 1))
       ELSE text

\* a || b
Either(a, b) == IF a \notin {Undefined, Null, 0} THEN a ELSE b

\* WatsonChat.jsx 109: the summary line shown for a report; it is determined
\* by the three scores it prints
Summary(doc) ==
  <<Tok("summary", "Analysis updated",
        [EmptyDoc EXCEPT !.hasScores = TRUE,
           !.scores = [NoScores EXCEPT
              !.overall_grade = Either(doc.scores.overall_transparency_grade,
                                       doc.scores.overall_grade),
              !.quality_score = doc.scores.quality_score,
              !.financial_score = doc.scores.financial_score]], 0)>>

\* WatsonChat.jsx 103-118: what a message event adds to the assistant
\* message, <<>> when the event is skipped (the texts of the model have no
\* line that is a lone brace)
ChatContent(content) ==
  IF IsJSON(content)
  THEN IF ParseJSON(content).hasScores THEN Summary(ParseJSON(content))
       ELSE IF ParseJSON(content).property # "" THEN <<>>
       ELSE content
  ELSE TrimText(content)

\* WatsonChat.jsx 120-129: the functional update of messages
ShowAssistant(messages, assistantMessage) ==
  IF messages # <<>> /\ messages[Len(messages)].role = "assistant"
  THEN [messages EXCEPT ![Len(messages)].content = assistantMessage]
  ELSE Append(messages, [role |-> "assistant", content |-> assistantMessage])

\* WatsonChat.jsx 102-130
ChatMessage(ctx, content) ==
  IF ChatContent(content) = <<>> THEN ctx
  ELSE LET c == [ctx EXCEPT !.assistantMessage = @ \o ChatContent(content)]
       IN IF ~ctx.mounted THEN c
          ELSE [c EXCEPT !.messages = ShowAssistant(@, c.assistantMessage)]

\* WatsonChat.jsx 92-134: one line of the for loop
ChatHandleLine(ctx, line) ==
  IF ~StartsWith(line, Prefix) THEN ctx
  ELSE LET data == SubSeq(line, Len(Prefix) + 1, Len(line)) IN
       IF data = DoneBytes THEN ctx
       ELSE IF ~IsEventJSON(Trim(data)) THEN ctx
       ELSE IF ParseEvent(Trim(data)).type = "thread_id"
            THEN IF ctx.mounted
                 THEN [ctx EXCEPT !.threadId = ParseEvent(Trim(data)).thread_id]
                 ELSE ctx
       ELSE IF ParseEvent(Trim(data)).type = "message"
            THEN ChatMessage(ctx, ParseEvent(Trim(data)).content)
       ELSE ctx

RECURSIVE ChatHandleLines(_, _)
ChatHandleLines(ctx, lines) ==
  IF lines = <<>> THEN ctx
  ELSE ChatHandleLines(ChatHandleLine(ctx, Head(lines)), Tail(lines))

\* WatsonChat.jsx 89-135: the body of the while loop for one value read;
\* every piece of chunk.split('\n') is handled, nothing is kept
ChatProcessChunk(ctx, chunk) == ChatHandleLines(ctx, SplitLines(chunk))

\* PropertyDetail.jsx 345-352: the WatsonChat is rendered
ChatVisible == mounted /\ threadId # NoThread

\* what the user types or picks
ChatInputs == {Blank, Word("hi") \o Blank}

\* the responses of /api/chat/stream
ChatStreams ==
  {[script |-> <<"t", "a">>, terminated |-> TRUE],
   [script |-> <<"a", "DONE">>, terminated |-> FALSE]}

\* WatsonChat.jsx 244 and 194: setInput
SetInput(text) ==
  /\ ChatVisible
  /\ ~chat.isLoading
  /\ text # chat.input
  /\ chat' = [chat EXCEPT !.input = text]
  /\ UNCHANGED <<id, mounted, property, loading, error, watsonResponse,
                 watsonLoading, watsonError, watsonStatus, threadId, fetches,
                 streams, writers, lastPrev, report, turns>>
  /\ UNCHANGED listing

\* the request with the thread id the chat was first given
NewTurnFirstThread(message, stream) ==
  [message |-> message, thread_id |-> Events["d"].thread_id,
   wire |-> WireOf(stream.script, stream.terminated), pos |-> 0,
   state |-> "open", assistantMessage |-> <<>>]

\* WatsonChat.jsx 72-83: the request sendMessage sends
NewTurn(message, stream) ==
  [message |-> message, thread_id |-> threadId,
   wire |-> WireOf(stream.script, stream.terminated), pos |-> 0,
   state |-> "open", assistantMessage |-> <<>>]

\* WatsonChat.jsx 63-79: the send button or the Enter key
sendMessage(stream) ==
  /\ ChatVisible
  /\ IF TrimText(chat.input) = <<>> \/ chat.isLoading
     THEN UNCHANGED <<chat, turns, listing>>
     ELSE /\ Len(turns) < MaxTurns
          /\ chat' = [messages |-> Append(chat.messages,
                                          [role |-> "user",
                                           content |-> TrimText(chat.input)]),
                      input |-> <<>>, isLoading |-> TRUE]
          /\ turns' = Append(turns, NewTurn(TrimText(chat.input), stream))
  /\ UNCHANGED <<id, mounted, property, loading, error, watsonResponse,
                 watsonLoading, watsonError, watsonStatus, threadId, fetches,
                 streams, writers, lastPrev, report>>
  /\ UNCHANGED listing

ChatCtx(t) ==
  [threadId |-> threadId, messages |-> chat.messages, mounted |-> mounted,
   assistantMessage |-> turns[t].assistantMessage]

\* WatsonChat.jsx 85-135: reader.read() returns the next n bytes
ChatRead(t, n) ==
  /\ t \in 1..Len(turns)
  /\ turns[t].state = "open"
  /\ n \in 1..(Len(turns[t].wire) - turns[t].pos)
  /\ \E out \in {ChatProcessChunk(ChatCtx(t),
                     SubSeq(turns[t].wire, turns[t].pos + 1,
                            turns[t].pos + n))} :
        /\ turns' = [turns EXCEPT ![t].pos = @ + n,
                                  ![t].assistantMessage = out.assistantMessage]
        /\ chat' = [chat EXCEPT !.messages = out.messages]
        /\ threadId' = out.threadId
  /\ UNCHANGED <<id, mounted, property, loading, error, watsonResponse,
                 watsonLoading, watsonError, watsonStatus, fetches, streams,
                 writers, lastPrev, report>>
  /\ UNCHANGED listing

\* WatsonChat.jsx 86-87 and 142-144: the stream ends, finally runs
ChatReadDone(t) ==
  /\ t \in 1..Len(turns)
  /\ turns[t].state = "open"
  /\ turns[t].pos = Len(turns[t].wire)
  /\ turns' = [turns EXCEPT ![t].state = "ended"]
  /\ chat' = IF mounted THEN [chat EXCEPT !.isLoading = FALSE] ELSE chat
  /\ UNCHANGED <<id, mounted, property, loading, error, watsonResponse,
                 watsonLoading, watsonError, watsonStatus, threadId, fetches,
                 streams, writers, lastPrev, report>>
  /\ UNCHANGED listing

ChatErrorText == Word("Sorry, I encountered an error. Please try again.")

\* the catch without the finally block: isLoading is left as it was
ChatErrorNoFinally(t) ==
  /\ t \in 1..Len(turns)
  /\ turns[t].state = "open"
  /\ turns' = [turns EXCEPT ![t].state = "failed"]
  /\ chat' = IF mounted
             THEN [chat EXCEPT
                     !.messages = Append(@, [role |-> "assistant",
                                             content |-> ChatErrorText])]
             ELSE chat
  /\ UNCHANGED <<id, mounted, property, loading, error, watsonResponse,
                 watsonLoading, watsonError, watsonStatus, threadId, fetches,
                 streams, writers, lastPrev, report>>
  /\ UNCHANGED listing

\* WatsonChat.jsx 72, 86 and 137-144: fetch or a read rejects; the catch
\* appends the apology, finally runs
ChatError(t) ==
  /\ t \in 1..Len(turns)
  /\ turns[t].state = "open"
  /\ turns' = [turns EXCEPT ![t].state = "failed"]
  /\ chat' = IF mounted
             THEN [chat EXCEPT
                     !.messages = Append(@, [role |-> "assistant",
                                             content |-> ChatErrorText]),
                     !.isLoading = FALSE]
             ELSE chat
  /\ UNCHANGED <<id, mounted, property, loading, error, watsonResponse,
                 watsonLoading, watsonError, watsonStatus, threadId, fetches,
                 streams, writers, lastPrev, report>>
  /\ UNCHANGED listing

\* one property view over its lifetime
Next ==
  Resolve \/ Reject \/ Navigate \/ Unmount \/ ReadSome \/ ReadEnd \/ Fail

Spec == Init /\ [][Next]_vars

\* one analysis session of a view that stays on its route, over every stream
StartSession == FetchResolve(1, AllStreams)

NextStream == StartSession \/ ReadSome \/ ReadEnd \/ Fail

SpecStream == Init /\ [][NextStream]_vars

\* the same session when the request is answered and the reader keeps
\* delivering: fetch resolves, and every pending reader.read() resolves with
\* bytes or with done.  A transport failure may happen but need not.
SpecStreamFair ==
  SpecStream /\ WF_vars(StartSession) /\ WF_vars(ReadSome \/ ReadEnd)

\* a property view that stays mounted on its route, with its chat: the
\* analysis streams that produce a thread
ChatViewStreams == {[script |-> <<"d">>, terminated |-> TRUE]}

StartAnalysis == \E k \in 1..Len(fetches) : FetchResolve(k, ChatViewStreams)

Type == \E text \in ChatInputs : SetInput(text)

Send == \E stream \in ChatStreams : sendMessage(stream)

\* where a read of a chat response may end: after a newline, inside the
\* "data: " prefix (after the colon), inside the payload (after its first
\* byte) or at the end of the response
ChatCuts(wire) ==
  {p \in 1..Len(wire) :
     \/ p = Len(wire)
     \/ wire[p] \in {"\n", ":", "{", "["}}

ChatReadSome ==
  \E t \in 1..Len(turns) :
    \E p \in ChatCuts(turns[t].wire) : ChatRead(t, p - turns[t].pos)

ChatReadEnd == \E t \in 1..Len(turns) : ChatReadDone(t)

ChatFail == \E t \in 1..Len(turns) : ChatError(t)

\* the analysis response arrives in one read (by C1 the callbacks of a
\* stream do not depend on how it is split)
ReadWhole == \E s \in 1..Len(streams) : Read(s, Len(streams[s].wire))

NextChat ==
  \/ StartAnalysis \/ ReadWhole \/ ReadEnd
  \/ Type \/ Send \/ ChatReadSome \/ ChatReadEnd \/ ChatFail

SpecChat == Init /\ [][NextChat]_vars

\* ------------------------------------------- ScoreCard under a given draft
Newline == <<Tok("space", "\n", EmptyDoc, 0)>>

\* "```json\n" text "\n```"
Fenced(text) ==
  <<Tok("fenceOpen", "", EmptyDoc, 0)>> \o text
    \o <<Tok("fenceClose", "", EmptyDoc, 0)>>

\* "Overall Grade: **65%**" and "Quality Score: **50/100**"
OverallLine ==
  Label("Overall Grade:") \o Blank \o Star \o Star \o Number(65) \o Percent
    \o Star \o Star

QualityLine ==
  Label("Quality Score:") \o Blank \o Star \o Star \o Number(50) \o Per100
    \o Star \o Star

\* the markdown chunks a draft grows by: the two lines above, "overall
\* grade:0%", "Overall Grade:** 65%", "Overall Grade: 65/100", "Financial
\* Score: ***30/100", "QUALITY SCORE: 40/100" and a line of narration
MarkdownChunks ==
  {OverallLine \o Newline,
   QualityLine \o Newline,
   Label("overall grade:") \o Number(0) \o Percent \o Newline,
   Label("Overall Grade:") \o Star \o Star \o Blank \o Number(65) \o Percent
     \o Newline,
   Label("Overall Grade:") \o Blank \o Number(65) \o Per100 \o Newline,
   Label("Financial Score:") \o Blank \o Star \o Star \o Star \o Number(30)
     \o Per100 \o Newline,
   Label("QUALITY SCORE:") \o Blank \o Number(40) \o Per100 \o Newline,
   Word("a") \o Newline}

\* report documents: every combination of the overall aliases, and the
\* documents of the wire format
AliasDocs ==
  {[EmptyDoc EXCEPT !.hasScores = TRUE,
      !.scores = [NoScores EXCEPT !.overall_transparency_grade = t,
                                  !.overall_grade = g, !.overall = o]] :
     t \in {Undefined, Null, 0, 72}, g \in {Undefined, 72, 65},
     o \in {Undefined, 64}}

ReportDocs ==
  AliasDocs \cup {EmptyDoc, PropertyOnlyDoc, FullScoresDoc, GradeDoc,
                  NullGradeDoc, QualityOnlyDoc}

\* the texts a ScoreCard is given first: a report document as onMessage
\* stores it, the same in a fenced block (alone or after narration) and a
\* fenced block that is not JSON
SeedTexts ==
  {Fenced(Word("a"))}
    \cup {Stringify(d) : d \in ReportDocs}
    \cup {Fenced(Compact(d)) : d \in ReportDocs}
    \cup {Word("a") \o Fenced(Compact(d)) : d \in {GradeDoc, PropertyOnlyDoc}}

Chunks(text) == Cardinality({i \in 1..Len(text) : text[i].w = "\n"})

\* PropertyDetail.jsx 11-19 with the property loaded, and part_003 202: the
\* ScoreCard rendered with the empty draft
InitReport ==
  /\ id = 1
  /\ mounted = TRUE
  /\ property = "1 Main St"
  /\ loading = FALSE
  /\ error = "null"
  /\ watsonResponse = <<>>
  /\ watsonLoading = FALSE
  /\ watsonError = "null"
  /\ watsonStatus = ""
  /\ threadId = NoThread
  /\ fetches = <<>>
  /\ streams = <<>>
  /\ writers = <<>>
  /\ lastPrev = <<>>
  /\ report = parseReport(watsonResponse)
  /\ chat = NoChat
  /\ turns = <<>>
  /\ listing = NewListing

\* part_003 55 and 202: the watsonResponse prop becomes text and the
\* ScoreCard renders
SetResponse(text) ==
  /\ watsonResponse = <<>>
  /\ lastPrev' = watsonResponse
  /\ watsonResponse' = text
  /\ report' = parseReport(text)
  /\ UNCHANGED <<id, mounted, property, loading, error, watsonLoading,
                 watsonError, watsonStatus, threadId, fetches, streams,
                 writers>>
  /\ UNCHANGED <<chat, turns, listing>>

\* PropertyDetail.jsx 77-82 and part_003 202: a chunk of markdown reaches the
\* draft and the ScoreCard renders again
Render(chunk) ==
  /\ Chunks(watsonResponse) < MaxChunks
  /\ lastPrev' = watsonResponse
  /\ watsonResponse' = AppendIncremental(watsonResponse, chunk)
  /\ report' = parseReport(watsonResponse')
  /\ UNCHANGED <<id, mounted, property, loading, error, watsonLoading,
                 watsonError, watsonStatus, threadId, fetches, streams,
                 writers>>
  /\ UNCHANGED <<chat, turns, listing>>

Respond == \E text \in SeedTexts : SetResponse(text)

Grow == \E chunk \in MarkdownChunks : Render(chunk)

NextReport == Respond \/ Grow

SpecReport == InitReport /\ [][NextReport]_vars

\* ---- the listing: PropertyProvider and its getProperties calls ----

OtherThanListing ==
  <<id, mounted, property, loading, error, watsonResponse, watsonLoading,
    watsonError, watsonStatus, threadId, fetches, streams, writers, lastPrev,
    report, chat, turns>>

\* part_000 28-35: fetchProperties up to its await
fetchProperties(newFilters, by) ==
  /\ Len(listing.requests) < MaxFetches
  /\ listing' =
       [listing EXCEPT
          !.loading = TRUE,
          !.error = "null",
          !.requests = Append(@, [queryParams |->
                                    Spread(listing.filters, newFilters),
                                  by |-> by, state |-> "pending"])]
  /\ UNCHANGED OtherThanListing

\* part_000 49-51
updateFilters(newFilters) ==
  fetchProperties(Spread(Spread(listing.filters, newFilters), [skip |-> 0]),
                  "updateFilters")

\* a next page that starts one listing further
nextPageByOne ==
  fetchProperties([skip |-> listing.filters.skip + 1], "nextPage")

\* part_000 54-56
nextPage ==
  fetchProperties([skip |-> listing.filters.skip + listing.filters.limit],
                  "nextPage")

Max(a, b) == IF a > b THEN a ELSE b

\* part_000 58-62
prevPage ==
  IF listing.filters.skip > 0
  THEN fetchProperties(
         [skip |-> Max(0, listing.filters.skip - listing.filters.limit)],
         "prevPage")
  ELSE UNCHANGED vars

\* part_000 65-75
resetFilters == fetchProperties(defaultFilters, "resetFilters")

\* part_000 35-38 and 43-45: getProperties resolves with a page of n
\* listings
GetPropertiesResolve(k, n) ==
  /\ k \in 1..Len(listing.requests)
  /\ listing.requests[k].state = "pending"
  /\ n \in PageSizes(listing.requests[k].queryParams)
  /\ listing' =
       [listing EXCEPT
          !.properties = Listings(listing.requests[k].queryParams, n),
          !.filters = listing.requests[k].queryParams,
          !.loading = FALSE,
          !.requests[k].state = "resolved"]
  /\ UNCHANGED OtherThanListing

\* a catch that commits the filters that were asked for
GetPropertiesRejectCommits(k, message) ==
  /\ k \in 1..Len(listing.requests)
  /\ listing.requests[k].state = "pending"
  /\ listing' =
       [listing EXCEPT
          !.error = IF message = "" THEN "Failed to fetch properties"
                                   ELSE message,
          !.properties = <<>>,
          !.filters = listing.requests[k].queryParams,
          !.loading = FALSE,
          !.requests[k].state = "rejected"]
  /\ UNCHANGED OtherThanListing

\* part_000 39-45: getProperties rejects
GetPropertiesReject(k, message) ==
  /\ k \in 1..Len(listing.requests)
  /\ listing.requests[k].state = "pending"
  /\ listing' =
       [listing EXCEPT
          !.error = IF message = "" THEN "Failed to fetch properties"
                                   ELSE message,
          !.properties = <<>>,
          !.loading = FALSE,
          !.requests[k].state = "rejected"]
  /\ UNCHANGED OtherThanListing

ApplyFilters == \E form \in FilterForms : updateFilters(form)

ListingResolve ==
  \E k \in 1..Len(listing.requests) :
    \E n \in PageSizes(listing.requests[k].queryParams) :
      GetPropertiesResolve(k, n)

ListingReject ==
  \E k \in 1..Len(listing.requests) :
    \E message \in ListingFailures : GetPropertiesReject(k, message)

\* a provider over its lifetime: the consumer pages and filters while the
\* listing service answers in any order
NextListing ==
  \/ nextPage \/ prevPage \/ ApplyFilters \/ resetFilters
  \/ ListingResolve \/ ListingReject

SpecListing == Init /\ [][NextListing]_vars


\* ================================================================== claims
Sessions == 1..Len(streams)

Delivered(s) == SubSeq(streams[s].wire, 1, streams[s].pos)

Range(f) == {f[i] : i \in DOMAIN f}

\* the session's loop context before its first read
FreshCtx(s) == [Ctx(s) EXCEPT !.calls = <<>>, !.buffer = <<>>, !.writers = <<>>]

\* the callbacks the read loop invoked for the bytes it read: all of the
\* session's callbacks but the onError of a transport failure
DecoderCalls(s) ==
  IF streams[s].failure # ""
  THEN SubSeq(streams[s].calls, 1, Len(streams[s].calls) - 1)
  ELSE streams[s].calls

\* C1: however the bytes delivered so far were split into reads, the
\* callbacks invoked (with their arguments) and the text still buffered are
\* those of a single read of the same bytes.
FragmentationInvariance ==
  \A s \in Sessions :
    /\ DecoderCalls(s) = ProcessChunk(FreshCtx(s), Delivered(s)).calls
    /\ streams[s].buffer = ProcessChunk(FreshCtx(s), Delivered(s)).buffer

IsProperPrefix(p, q) == Len(p) < Len(q) /\ SubSeq(q, 1, Len(p)) = p

\* a read ended inside the "data: " prefix of a line, after an earlier line
\* of the stream was dispatched
SplitInsidePrefix ==
  \E s \in Sessions :
    /\ streams[s].calls # <<>>
    /\ streams[s].buffer # <<>>
    /\ IsProperPrefix(streams[s].buffer, Prefix)

\* the session whose callbacks wrote the view last
IsLastWriter(s) == writers # <<>> /\ writers[Len(writers)] = s

LastCall(s) == streams[s].calls[Len(streams[s].calls)]

\* a scores object resolves an overall grade under the alias list
ResolvesOverall(doc) ==
  /\ doc.hasScores
  /\ \/ doc.scores.overall_transparency_grade \notin {Undefined, Null}
     \/ doc.scores.overall_grade \notin {Undefined, Null}
     \/ doc.scores.overall \notin {Undefined, Null}

\* the call is onMessage with a complete report: it resolves an overall
\* grade and reaches the "complete report" branch of onMessage
IsFinalCall(call) ==
  /\ call.cb = "onMessage"
  /\ IsJSON(call.text)
  /\ ResolvesOverall(ParseJSON(call.text))
  /\ IsCompleteReport(ParseJSON(call.text))

FinalCalls(s) ==
  {i \in 1..Len(streams[s].calls) : IsFinalCall(streams[s].calls[i])}

\* C2: once a message classified Final has replaced the draft, no later
\* message of the same stream changes the draft: the draft is the first
\* Final message of the session.
FinalizationIsLatch ==
  \A s \in Sessions :
    (mounted /\ FinalCalls(s) # {})
      => watsonResponse = streams[s].calls[Min(FinalCalls(s))].text

\* m occurs in t as a contiguous run
IsSubstring(m, t) ==
  \E i \in 0..(Len(t) - Len(m)) : SubSeq(t, i + 1, i + Len(m)) = m

\* the texts onMessage treats as incremental: not JSON, or JSON with neither
\* property nor scores
IsIncremental(m) ==
  \/ ~IsJSON(m)
  \/ ParseJSON(m).property = "" /\ ~ParseJSON(m).hasScores

NarrationTexts ==
  {<<>>, Word("a"), Word("b"), Word("a") \o Word("b"), Word("b") \o Word("a"),
   Stringify(EmptyDoc)}

\* C3: an incremental text already present in the draft leaves the draft as
\* it was, any other is concatenated, and delivering a text a second time
\* changes nothing.
AppendIsIdempotent ==
  /\ \A s \in Sessions :
       (/\ streams[s].calls # <<>>
        /\ LastCall(s).cb = "onMessage"
        /\ IsIncremental(LastCall(s).text))
         => watsonResponse =
              IF IsSubstring(LastCall(s).text, lastPrev) THEN lastPrev
              ELSE lastPrev \o LastCall(s).text
  /\ \A m \in NarrationTexts :
       /\ OnMessage(watsonResponse, m) =
            IF IsSubstring(m, watsonResponse) THEN watsonResponse
            ELSE watsonResponse \o m
       /\ OnMessage(OnMessage(watsonResponse, m), m) =
            OnMessage(watsonResponse, m)

\* the same narration chunk was delivered twice in a row and appears once
DuplicateSuppressed ==
  \E s \in Sessions :
    /\ Len(streams[s].calls) = 2
    /\ streams[s].calls[1] = Call("onMessage", Word("a"), "")
    /\ streams[s].calls[2] = Call("onMessage", Word("a"), "")
    /\ lastPrev = Word("a")
    /\ watsonResponse = Word("a")

\* C4: the stream property-only message, complete report, done ends with
\* the normalised scores {overall 80, quality 90, financial 70} and thread
\* id abc123, and the property-only message is never in the draft.
ScenarioReport ==
  \A s \in Sessions :
    streams[s].script = ScenarioScript =>
      /\ ~IsSubstring(Stringify(PropertyOnlyDoc), watsonResponse)
      /\ ~IsSubstring(Compact(PropertyOnlyDoc), watsonResponse)
      /\ (streams[s].state = "ended" /\ streams[s].buffer = <<>>) =>
           /\ ~parseReport(watsonResponse).isNull
           /\ parseReport(watsonResponse).scores =
                [NoScores EXCEPT !.overall = 80, !.quality = 90,
                                 !.financial = 70]
           /\ threadId = "abc123"

\* the scenario stream was read to its end
ScenarioEnded ==
  \E s \in Sessions :
    /\ streams[s].script = ScenarioScript
    /\ streams[s].state = "ended"
    /\ streams[s].buffer = <<>>
    /\ Len(streams[s].calls) = 3
    /\ ~watsonLoading

\* what each line of a script is to produce, by the wire format
ExpectedCall(name) ==
  CASE name \in {"s", "s_"} -> <<Call("onStatus", <<>>, "Analyzing")>>
    [] name = "d" -> <<Call("onComplete", <<>>, "abc123")>>
    [] name = "e" -> <<Call("onError", <<>>, "upstream failed")>>
    [] name \in {"a", "b"} -> <<Call("onMessage", Word(name), "")>>
    [] name \in MalformedLines ->
         <<Call("onMessage", Events[name].content, "")>>
    [] name \in {"p", "f", "g", "o", "n", "q", "x"} ->
         <<Call("onMessage", Stringify(ParseJSON(Events[name].content)), "")>>
    [] OTHER -> <<>>

RECURSIVE ExpectedCalls(_, _)
ExpectedCalls(script, k) ==
  IF k = 0 THEN <<>>
  ELSE ExpectedCalls(script, k - 1) \o ExpectedCall(script[k])

\* the lines of the session's stream delivered with their newline
CompleteLines(s) ==
  Cardinality({i \in 1..streams[s].pos : streams[s].wire[i] = "\n"})

\* C5: a data line whose payload is not JSON produces no callback and does
\* not end the loop; the complete lines around it are dispatched in order.
MalformedLineDropped ==
  \A s \in Sessions :
    "bad" \in Range(streams[s].script) =>
      /\ streams[s].state = "failed" => streams[s].failure # ""
      /\ DecoderCalls(s) = ExpectedCalls(streams[s].script, CompleteLines(s))

\* a stream whose malformed line was followed by a dispatched line
ValidLineAfterMalformed ==
  \E s \in Sessions :
    /\ streams[s].state = "ended"
    /\ Len(streams[s].script) >= 2
    /\ streams[s].script[1] = "bad"
    /\ streams[s].calls # <<>>

\* C6: after a done or an error event was dispatched no further callback is
\* invoked for the stream.
DoneIsTerminal ==
  \A s \in Sessions :
    \A i \in 1..(Len(DecoderCalls(s)) - 1) :
      DecoderCalls(s)[i].cb \notin {"onComplete", "onError"}

\* the session's read loop can still invoke callbacks
IsLive(s) == streams[s].state = "open" /\ ~streams[s].aborted

\* C7: when the view is left or a new analysis request starts, the stream in
\* flight has been aborted: only the latest stream of a mounted view is live.
AbortBeforeNewStream ==
  \A s \in Sessions :
    IsLive(s) => (mounted /\ s = Len(streams))

\* C8: at most one read loop can write the draft and the thread id, and the
\* callbacks of two streams never interleave.
SingleWriter ==
  /\ Cardinality({s \in Sessions : IsLive(s)}) <= 1
  /\ \A i \in 1..Len(writers) : \A j \in i..Len(writers) :
       writers[i] <= writers[j]

\* C9: a JSON message replaces the draft if and only if its scores object
\* has one of overall_transparency_grade, overall_grade, overall non-null.
FinalClassification ==
  \A s \in Sessions :
    (/\ mounted
     /\ IsLastWriter(s)
     /\ LastCall(s).cb = "onMessage"
     /\ IsJSON(LastCall(s).text))
      => IF ResolvesOverall(ParseJSON(LastCall(s).text))
         THEN watsonResponse = LastCall(s).text
         ELSE watsonResponse \in {lastPrev, lastPrev \o LastCall(s).text}

\* JSON with property and/or scores but no resolved overall grade
IsPartialDoc(doc) ==
  (doc.property # "" \/ doc.hasScores) /\ ~ResolvesOverall(doc)

PartialTexts ==
  {Stringify(d) : d \in {PropertyOnlyDoc, QualityOnlyDoc, NullGradeDoc}}

\* C10: a Partial message leaves the draft unchanged and the session open,
\* and the draft never contains the text of a Partial message.
PartialNeverLeaks ==
  /\ \A s \in Sessions :
       (/\ mounted
        /\ IsLastWriter(s)
        /\ LastCall(s).cb = "onMessage"
        /\ IsJSON(LastCall(s).text)
        /\ IsPartialDoc(ParseJSON(LastCall(s).text)))
         => watsonResponse = lastPrev
  /\ \A p \in PartialTexts : ~IsSubstring(p, watsonResponse)

DoneCalls(s) ==
  {i \in 1..Len(streams[s].calls) : streams[s].calls[i].cb = "onComplete"}

\* C11: threadId starts null and the analysis flow assigns it once per
\* session, from the done event: no session invokes onComplete twice.
ThreadIdSetOnce ==
  /\ streams = <<>> => threadId = NoThread
  /\ \A s \in Sessions : Cardinality(DoneCalls(s)) <= 1

\* the first sentinel line of a script, 0 if it has none
FirstSentinel(script) ==
  IF "DONE" \in Range(script)
  THEN Min({i \in 1..Len(script) : script[i] = "DONE"})
  ELSE 0

\* C14: the sentinel line "data: [DONE]" ends the stream: the callbacks of a
\* session whose stream has a sentinel are those of the lines before it.
SentinelEndsStream ==
  \A s \in Sessions :
    FirstSentinel(streams[s].script) # 0 =>
      DecoderCalls(s) =
        ExpectedCalls(streams[s].script,
                      Min({FirstSentinel(streams[s].script) - 1,
                           CompleteLines(s)}))

\* the fetchProperty calls that went on to triggerWatsonAnalysis
Requested == {k \in 1..Len(fetches) : ~fetches[k].pending}

\* C19: a transport failure (rejected fetch, non-OK status, failing read)
\* invokes onError once, as the session's last callback after those of the
\* bytes read before it, leaves watsonError set and watsonLoading false, and
\* starts no request of its own.
TransportFailureSurfaced ==
  /\ \A s \in Sessions :
       streams[s].state = "failed" =>
         /\ streams[s].failure # ""
         /\ streams[s].calls =
              Append(ProcessChunk(FreshCtx(s), Delivered(s)).calls,
                     Call("onError", <<>>, streams[s].failure))
         /\ (mounted /\ IsLastWriter(s)) =>
              /\ watsonError = streams[s].failure
              /\ ~watsonLoading
  /\ Len(streams) <= Cardinality(Requested)

\* a read failed after a message of the stream was dispatched
FailedAfterMessage ==
  \E s \in Sessions :
    /\ streams[s].state = "failed"
    /\ streams[s].failure = ReadFailure
    /\ Len(streams[s].calls) = 2
    /\ streams[s].calls[1].cb = "onMessage"
    /\ watsonError = ReadFailure
    /\ ~watsonLoading

\* the draft a session's onMessage calls build from the empty draft
RECURSIVE DraftOf(_, _)
DraftOf(calls, k) ==
  IF k = 0 THEN <<>>
  ELSE IF calls[k].cb = "onMessage"
       THEN OnMessage(DraftOf(calls, k - 1), calls[k].text)
       ELSE DraftOf(calls, k - 1)

\* C20: every analysis request starts from an empty draft, no error and
\* watsonLoading true, and later the draft holds only what the messages of
\* the latest request contributed.
DraftResetPerRequest ==
  (mounted /\ streams # <<>>) =>
    /\ watsonResponse =
         DraftOf(streams[Len(streams)].calls, Len(streams[Len(streams)].calls))
    /\ streams[Len(streams)].calls = <<>> =>
         watsonError = "null" /\ watsonLoading

\* C15: the report of a JSON document in a fenced block is the report of
\* the same document unfenced: both null or both not, with the same scores.
FencedRoundTrip ==
  \A d \in ReportDocs :
    watsonResponse = Fenced(Compact(d)) =>
      /\ report.isNull = parseReport(Compact(d)).isNull
      /\ report.scores = parseReport(Compact(d)).scores

AliasOrder == <<"overall_transparency_grade", "overall_grade", "overall">>

\* the value of the first alias, in the order above, that is present and
\* not null
FirstAlias(scores) ==
  scores[AliasOrder[Min({i \in 1..Len(AliasOrder) :
                           scores[AliasOrder[i]] \notin {Undefined, Null}})]]

OnlyAlias(key) ==
  [EmptyDoc EXCEPT !.hasScores = TRUE, !.scores = [NoScores EXCEPT ![key] = 72]]

\* C16: for a bare-JSON report with a scores object, scores.overall is the
\* value of the first alias present and not null in the order
\* overall_transparency_grade, overall_grade, overall; a document with only
\* overall_transparency_grade 72 or only overall_grade 72 gives 72.
AliasResolution ==
  /\ \A d \in ReportDocs :
       (/\ watsonResponse \in {Compact(d), Stringify(d)}
        /\ ResolvesOverall(d))
         => /\ ~report.isNull
            /\ report.scores.overall = FirstAlias(d.scores)
  /\ \A key \in {"overall_transparency_grade", "overall_grade"} :
       watsonResponse = Stringify(OnlyAlias(key)) => report.scores.overall = 72

\* a report whose first alias is null and whose second and third differ
SecondAliasWins ==
  /\ IsJSON(watsonResponse)
  /\ ParseJSON(watsonResponse).scores.overall_transparency_grade = Null
  /\ ParseJSON(watsonResponse).scores.overall_grade = 72
  /\ ParseJSON(watsonResponse).scores.overall = 64
  /\ report.scores.overall = 72

\* texts in which no score can be resolved: JSON without scores, JSON with
\* only property, a fenced block that is not JSON, narration, and a label
\* with the wrong unit
UnscoredTexts ==
  {Stringify(EmptyDoc), Stringify(PropertyOnlyDoc), Fenced(Word("a")),
   Word("a") \o Newline,
   Label("Overall Grade:") \o Blank \o Number(65) \o Per100 \o Newline}

\* C17: for a non-empty text in which no score can be resolved parseReport
\* returns an object whose full_text is the text, never null.
NormalizationNeverFails ==
  \A t \in UnscoredTexts :
    watsonResponse = t =>
      /\ ~report.isNull
      /\ report.hasFullText
      /\ report.full_text = t

LabelsOf(text) == {i \in 1..Len(text) : text[i].kind = "label"}

IsLineAt(text, i, line) ==
  i + Len(line) - 1 <= Len(text) /\ SubSeq(text, i, i + Len(line) - 1) = line

\* a text without JSON, bare or fenced, whose labels are "Overall Grade:
\* **65%**" and "Quality Score: **50/100**"
HasTheTwoLabels(text) ==
  /\ \A i \in 1..Len(text) : text[i].kind \notin {"json", "fenceOpen"}
  /\ \E i, j \in 1..Len(text) :
       /\ LabelsOf(text) = {i, j}
       /\ IsLineAt(text, i, OverallLine)
       /\ IsLineAt(text, j, QualityLine)

\* C18: for a text without JSON whose labels are "Overall Grade: **65%**"
\* and "Quality Score: **50/100**" parseReport returns scores.overall 65 and
\* scores.quality 50 and leaves scores.financial unset.
PatternFallback ==
  HasTheTwoLabels(watsonResponse) =>
    /\ ~report.isNull
    /\ report.scores =
         [NoScores EXCEPT !.overall = 65, !.quality = 50]

\* the two labels on consecutive lines, as in the scenario
ScenarioLabelsRendered ==
  /\ watsonResponse = OverallLine \o Newline \o QualityLine \o Newline
  /\ report.scores.overall = 65
  /\ report.scores.quality = 50
  /\ report.scores.financial = Undefined

\* C12: a chat request carries the value threadId has when it is sent, none
\* is sent before a done event of the analysis flow produced a thread id,
\* and an analysis request sent while threadId is null omits thread_id.
ChatCarriesThread ==
  [][/\ Len(turns') > Len(turns) =>
          /\ turns'[Len(turns')].thread_id = threadId
          /\ threadId # NoThread
          /\ \E s \in Sessions : DoneCalls(s) # {}
     /\ Len(streams') > Len(streams) =>
          (threadId = NoThread =>
             streams'[Len(streams')].thread_id = NoThread)]_vars

\* the analysis request was sent without a thread id, the first chat request
\* with the id of the done event and a later one with the id a chat stream
\* rotated to
RotatedThreadSent ==
  /\ \E s \in Sessions : streams[s].thread_id = NoThread
  /\ Len(turns) >= 2
  /\ turns[1].thread_id = Events["d"].thread_id
  /\ turns[Len(turns)].thread_id = Events["t"].thread_id

\* the thread_id lines of a chat response delivered with their newline
ThreadLines(turn) ==
  Cardinality({p \in 1..turn.pos :
                 /\ turn.wire[p] = "\n"
                 /\ p > Len(DataLine("t"))
                 /\ SubSeq(turn.wire, p - Len(DataLine("t")), p - 1)
                      = DataLine("t")})

\* C13: when a chat stream has delivered a thread_id event the shared
\* threadId is the event's value, and a chat turn started afterwards sends
\* the value threadId then has.
SessionRotation ==
  [][/\ \A t \in 1..Len(turns) :
          ThreadLines(turns'[t]) > ThreadLines(turns[t]) =>
            threadId' = Events["t"].thread_id
     /\ Len(turns') > Len(turns) =>
          turns'[Len(turns')].thread_id = threadId]_vars

\* C21: whenever the ScoreCard renders a report, the overall-grade card is
\* shown exactly when scores.overall is present and not null (0 included),
\* and the full-text fallback exactly when it is not.
CompletenessSignal ==
  ShowsReport(report, watsonLoading, watsonError) =>
    /\ ShowsOverallCard(report, watsonLoading, watsonError)
         <=> report.scores.overall \notin {Undefined, Null}
    /\ ShowsFullText(report, watsonLoading, watsonError)
         <=> report.scores.overall \in {Undefined, Null}

\* C22: a message event whose content is missing, null or a number raises
\* nothing and leaves the draft as it was: a stream of such events only
\* leaves the draft empty and the loop running.
MalformedMessageInert ==
  \A s \in Sessions :
    (mounted /\ Range(streams[s].script) \subseteq MalformedLines) =>
      /\ watsonResponse = <<>>
      /\ streams[s].state = "failed" => streams[s].failure # ""

\* what the chat decoder makes of the whole response of turn t in one read
Unsplit(t) ==
  ChatProcessChunk([threadId |-> turns[t].thread_id, messages |-> <<>>,
                    mounted |-> TRUE, assistantMessage |-> <<>>],
                   turns[t].wire)

\* C23: however a chat response is split into reads, once the last turn has
\* ended its assistant message and the thread id are those of the unsplit
\* response.
ChatFragmentationInvariance ==
  (mounted /\ turns # <<>> /\ turns[Len(turns)].state = "ended") =>
    /\ turns[Len(turns)].assistantMessage = Unsplit(Len(turns)).assistantMessage
    /\ threadId = Unsplit(Len(turns)).threadId

\* C24: loading always ends: once the stream of the analysis session has
\* ended (the reader reported done), watsonLoading eventually becomes false.
LoadingAlwaysEnds ==
  (mounted /\ Len(streams) = 1 /\ streams[1].state = "ended")
    ~> ~watsonLoading

\* C25: when the analysis stream has ended, every event the server wrote has
\* been dispatched exactly once, a last line without its newline included.
FinalBufferDispatched ==
  \A s \in Sessions :
    streams[s].state = "ended" =>
      streams[s].calls =
        ExpectedCalls(streams[s].script, Len(streams[s].script))

\* the chat requests in flight
OpenTurns(ts) == {t \in 1..Len(ts) : ts[t].state = "open"}

UserMessages(c) ==
  Cardinality({i \in 1..Len(c.messages) : c.messages[i].role = "user"})

\* C26: chat turns are single-flight: at most one chat request is in flight;
\* while isLoading is true or the trimmed input is empty no step appends a
\* user message or sends a request; and isLoading is true exactly while a
\* request is in flight, so it is false again after every turn, ended or
\* failed.
ChatSingleFlight ==
  [][/\ Cardinality(OpenTurns(turns')) <= 1
     /\ chat'.isLoading <=> OpenTurns(turns') # {}
     /\ (chat.isLoading \/ TrimText(chat.input) = <<>>) =>
          /\ Len(turns') = Len(turns)
          /\ UserMessages(chat') = UserMessages(chat)]_vars

\* a turn has failed, another has ended, and the input holds blanks only, so
\* that sendMessage returns at once
TurnsEndedAndFailed ==
  /\ Len(turns) = 2
  /\ turns[1].state = "failed"
  /\ turns[2].state = "ended"
  /\ ~chat.isLoading
  /\ chat.input = Blank

\* C27: transcript shape: each turn adds one user message followed by at
\* most one assistant message, so the transcript never holds two assistant
\* messages in a row and never more messages than two per turn.
TranscriptShape ==
  /\ UserMessages(chat) = Len(turns)
  /\ Len(chat.messages) <= 2 * Len(turns)
  /\ \A i \in 1..(Len(chat.messages) - 1) :
       ~ /\ chat.messages[i].role = "assistant"
         /\ chat.messages[i + 1].role = "assistant"

\* the getProperties calls a step issues
Issued == (Len(listing.requests) + 1)..Len(listing'.requests)

\* C28: pagination invariant: after every step of nextPage, prevPage,
\* updateFilters, resetFilters and of the service's answers, filters.skip is
\* a non-negative multiple of filters.limit and currentPage is skip/limit + 1;
\* prevPage at skip 0 issues no fetch; updateFilters and resetFilters request
\* skip 0.
PaginationInvariant ==
  [][/\ listing'.filters.skip >= 0
     /\ listing'.filters.skip % listing'.filters.limit = 0
     /\ (currentPage(listing') - 1) * listing'.filters.limit
          = listing'.filters.skip
     /\ \A k \in Issued :
          /\ listing'.requests[k].by = "prevPage" => listing.filters.skip > 0
          /\ listing'.requests[k].by \in {"updateFilters", "resetFilters"}
               => listing'.requests[k].queryParams.skip = 0]_vars

\* nextPage was answered twice: the third page is shown
ThirdPageShown ==
  /\ listing.filters.skip = 2 * listing.filters.limit
  /\ currentPage(listing) = 3
  /\ ~listing.loading

\* the getProperties calls a step settles as outcome
Settled(outcome) ==
  {k \in 1..Len(listing.requests) :
     /\ listing.requests[k].state = "pending"
     /\ listing'.requests[k].state = outcome}

\* C29: a failed listing fetch leaves the committed filters unchanged: the
\* step in which getProperties rejects sets error, empties properties, sets
\* loading false and keeps filters; filters change only to the query of a
\* fetch that resolves.
FailedFetchKeepsFilters ==
  [][/\ Settled("rejected") # {} =>
          /\ listing'.filters = listing.filters
          /\ listing'.error \in
               (ListingFailures \ {""}) \cup {"Failed to fetch properties"}
          /\ listing'.properties = <<>>
          /\ ~listing'.loading
     /\ listing'.filters # listing.filters =>
          \E k \in Settled("resolved") :
            listing'.filters = listing.requests[k].queryParams]_vars

\* a nextPage failed after the first page had been shown: the page is still
\* the first
FailedNextPage ==
  /\ Len(listing.requests) = 2
  /\ listing.requests[1].state = "resolved"
  /\ listing.requests[2].by = "nextPage"
  /\ listing.requests[2].state = "rejected"
  /\ listing.error = "Network Error"
  /\ listing.filters.skip = 0

Pending == {k \in 1..Len(listing.requests) :
              listing.requests[k].state = "pending"}

\* C30: overlapping listing fetches stay consistent: loading is true while
\* some fetch is in flight, and once all are answered and the most recently
\* requested one has resolved, filters and properties are those of that
\* fetch.
OverlappingFetchesConsistent ==
  /\ Pending # {} => listing.loading
  /\ (Pending = {} /\ listing.requests[Len(listing.requests)].state
                        = "resolved") =>
       /\ listing.filters
            = listing.requests[Len(listing.requests)].queryParams
       /\ \A i \in 1..Len(listing.properties) :
            /\ listing.properties[i].zpid = listing.filters.skip + i
            /\ listing.properties[i].beds = listing.filters.beds
            /\ listing.properties[i].borough = listing.filters.borough

====
